---- MODULE Spec2Model ----
(***************************************************************************)
(* The browser clients of pipewire-streaming: the simple-js client         *)
(* (src/clients/simple-js/web/index.js), the root web client               *)
(* (src/web/index.js) and the visualizer client (src/unnamed/part_000).    *)
(* Each click on the connect button runs one invocation of                 *)
(* connectAndReceive (a "session"); all sessions of a page share the       *)
(* page's module-level variables.  Time is in milliseconds.  The           *)
(* WebCodecs AudioDecoder, the Web Audio AudioContext and the WebTransport *)
(* connection are the environment: their outcomes are nondeterministic     *)
(* inputs of the actions.  The Frame Ring Buffer of the native pipeline    *)
(* (crate circular-queue2) is modelled on its own, from its specification. *)
(***************************************************************************)
EXTENDS Integers, Sequences, FiniteSets, TLC

(* ------------------------------ constants ------------------------------ *)

\* FRAME_DURATION_MS / frameDurationMs: the duration of one encoded frame.
FRAME_DURATION_MS == 5

\* The margin of `currentTime + 0.005` in handleDecodedChunk, in ms.
RESYNC_MARGIN_MS == 5

(* ------------------------------- bounds -------------------------------- *)

\* Invocations of connectAndReceive (clicks) in a free run.
MaxSessions == 2
\* Non-empty chunks read in a free run, over all sessions.
MaxChunks == 2
\* The device clock of one AudioContext in a free run.
MaxTime == 6
\* The longest time, in ms, connecting takes in a scripted run.
MaxConnDelay == 2
\* The scripted runs: frames sent, the stalled frames and their delay, and
\* the frame that fails to decode (frames are numbered from 1).
NumFrames == 100
StallFirst == 40
StallLast == 45
StallMs == 50
FailFrame == 17
\* The jitter script: the frame that is late, and by how many ms.
JitterFrame == 50
JitterMs == 5
\* The Frame Ring Buffer: the largest capacity, how many items are pushed
\* in all, and the longest sequence given to push_bulk.
MaxCapacity == 3
MaxPushes == 6
MaxBulk == 2

Sessions == 1..MaxSessions

\* The durations a decoded frame (AudioBuffer.duration) can have in a free run.
Durations == {FRAME_DURATION_MS, 2 * FRAME_DURATION_MS}

Max(a, b) == IF a >= b THEN a ELSE b

VARIABLES
    client,             \* "simple" | "web" | "viz": which page is loaded
    scenario,           \* "free" | "steady" | "stall" | "decfail" | "jitter": the environment's script
    pc,                 \* pc[s]: where invocation s of connectAndReceive stands
    audioContext,       \* state of the AudioContext in `audioContext`: "null" | "suspended" | "running" | "closed"
    ctxOwner,           \* the invocation that created that AudioContext (0: none)
    currentTime,        \* audioContext.currentTime, ms
    decoderState,       \* state of the AudioDecoder in `audioDecoder`: "null" | "configured" | "closed"
    decoderGen,         \* the invocation that created that AudioDecoder (0: none)
    decodeQueue,        \* chunks submitted to a decoder and not yet output, in submission order
    nextPlayTime,       \* let nextPlayTime, ms
    receivedChunkCount, \* let receivedChunkCount (simple-js)
    connected,          \* let connected (root web client)
    transport,          \* the invocation whose WebTransport is in `transport` (0: null)
    tstate,             \* tstate[s]: "none" | "connecting" | "open" | "closed"
    chunksRead,         \* history: non-empty chunks read so far
    skipped,            \* history: ids of the chunks the readiness guard skipped
    failed,             \* history: ids of the chunks whose decoding failed
    epoch,              \* history: how often initAudio has written nextPlayTime
    epochStart,         \* history: the value initAudio last wrote to nextPlayTime
    \* history of the frames handed to sourceNode.start since that write:
    schedLog,           \*   the last two of them, in order
    schedCount,         \*   how many they are
    firstStart,         \*   the start time of the first
    resynced,           \*   ids of those handled with nextPlayTime < currentTime
    gaps,               \*   ids of those not started at the end of the frame before
    epochFrames,        \*   their common duration (0: none yet, -1: they differ) and
                        \*   whether one of them was resynchronized
    streamT0,           \* history: the device clock when the receive loop was entered
    status,             \* what the page's status element shows
    emptySeen,          \* history: how many chunks had been read when reader.read() first
                        \*   gave an empty value (as a set: empty while it has not)
    leaked,             \* history: ids of the decoded frames the handler left without close()
    cause,              \* history: cause[s]: how invocation s left connectAndReceive after
                        \*   connecting ("none" | "error" | "closed" | "nostream")
    handling,           \* the call of handleDecodedChunk under way, when followed line by line
    \* the Frame Ring Buffer of the native pipeline (circular-queue2):
    ringBuf,            \*   its capacity, slots, index of the oldest item and occupancy
    ringPushed,         \*   history: how many items were pushed; item k is the k-th pushed
    ringOut,            \*   what pop() last returned (NoPop: not called yet, 0: nothing)
    ringBulk            \*   history: how many items push_bulk was last given, and how
                        \*   many slots were free then (NoBulk: not called yet)

vars == <<client, scenario, pc, audioContext, ctxOwner, currentTime, decoderState,
          decoderGen, decodeQueue, nextPlayTime, receivedChunkCount, connected,
          transport, tstate, chunksRead, skipped, failed, schedLog, schedCount,
          firstStart, resynced, gaps, epoch, epochStart, epochFrames, streamT0,
          status, emptySeen, leaked, cause, handling, ringBuf, ringPushed,
          ringOut, ringBulk>>

audioVars == <<audioContext, ctxOwner, currentTime>>
decoderVars == <<decoderState, decoderGen, decodeQueue>>
netVars == <<transport, tstate>>
histVars == <<chunksRead, skipped, failed, streamT0>>
\* The history of the frames scheduled since initAudio last wrote nextPlayTime.
epochVars == <<epoch, epochStart, epochFrames, schedLog, schedCount, firstStart,
               resynced, gaps>>

ringVars == <<ringBuf, ringPushed, ringOut, ringBulk>>

\* The variables the actions of the page leave alone: those of the handler
\* followed line by line, and those of the ring buffer.
sideVars == <<handling, ringVars>>

\* The variables of the page.
pageVars == <<client, scenario, pc, audioVars, decoderVars, nextPlayTime,
              receivedChunkCount, connected, netVars, histVars, epochVars,
              status, emptySeen, leaked, cause, handling>>

\* No ring buffer has been created.
NoRing == [cap |-> 0, data |-> <<>>, head |-> 0, len |-> 0]

NoPop == -1

NoBulk == [n |-> 0, free |-> 0]

NoFrames == [dur |-> 0, resync |-> FALSE]

\* No call of handleDecodedChunk is under way.
NoCall == [step |-> "none"]

Free == scenario = "free"

Init ==
    /\ client \in {"simple", "web", "viz"}
    /\ scenario \in {"free", "steady", "stall", "decfail", "jitter"}
    \* the scripts exercise the playback cursor, which the visualizer has not
    /\ client = "viz" => scenario = "free"
    /\ pc = [s \in Sessions |-> "idle"]
    /\ audioContext = "null"
    /\ ctxOwner = 0
    /\ currentTime = 0
    /\ decoderState = "null"
    /\ decoderGen = 0
    /\ decodeQueue = <<>>
    /\ nextPlayTime = 0
    /\ receivedChunkCount = 0
    /\ connected = FALSE
    /\ transport = 0
    /\ tstate = [s \in Sessions |-> "none"]
    /\ chunksRead = 0
    /\ skipped = {}
    /\ failed = {}
    /\ epoch = 0
    /\ epochStart = 0
    /\ epochFrames = NoFrames
    /\ schedLog = <<>>
    /\ schedCount = 0
    /\ firstStart = 0
    /\ resynced = {}
    /\ gaps = {}
    /\ streamT0 = 0
    /\ status = "loaded"
    /\ emptySeen = {}
    /\ leaked = {}
    /\ cause = [s \in Sessions |-> "none"]
    /\ handling = NoCall
    /\ ringBuf = NoRing
    /\ ringPushed = 0
    /\ ringOut = NoPop
    /\ ringBulk = NoBulk

(* ------------------------ the environment's script --------------------- *)

\* Frame k (from 1) of a scripted run is sent FRAME_DURATION_MS after frame k-1.
Nominal(k) == streamT0 + (k - 1) * FRAME_DURATION_MS

\* When frame k of a scripted run can be read: on time, except that the stall
\* script holds frames StallFirst..StallLast back by StallMs, and the stream
\* being ordered, no later frame overtakes them; and that the jitter script
\* delivers frame JitterFrame JitterMs late.
Arrival(k) ==
    CASE scenario = "stall" /\ k >= StallFirst /\ k <= StallLast ->
            Nominal(k) + StallMs
      [] scenario = "stall" /\ k > StallLast ->
            Max(Nominal(k), Nominal(StallLast) + StallMs)
      [] scenario = "jitter" /\ k = JitterFrame ->
            Nominal(k) + JitterMs
      [] OTHER -> Nominal(k)

\* A scripted run is one session that initializes and connects without
\* failure, and decodes every chunk before the next is read.
CtxOutcomes == IF Free THEN {"throw", "suspended", "running"} ELSE {"running"}
DecOutcomes == IF Free THEN {"throw", "ok"} ELSE {"ok"}
MayStart(s) ==
    /\ pc[s] = "idle"
    /\ IF s = 1 THEN TRUE ELSE Free /\ pc[s - 1] # "idle"

MayTick ==
    IF Free
    THEN currentTime < MaxTime
    ELSE \/ pc[1] \in {"ready", "stream"} /\ currentTime < MaxConnDelay
         \/ /\ pc[1] = "read"
            /\ decodeQueue = <<>>
            /\ chunksRead < NumFrames
            /\ currentTime < Arrival(chunksRead + 1)

MayReadChunk ==
    IF Free
    THEN chunksRead < MaxChunks
    ELSE /\ chunksRead < NumFrames
         /\ decodeQueue = <<>>
         /\ currentTime >= Arrival(chunksRead + 1)

MayReadDone == Free \/ (chunksRead = NumFrames /\ decodeQueue = <<>>)

\* The decoder outputs in submission order: entry i is the oldest of its decoder.
Oldest(i) ==
    /\ i \in DOMAIN decodeQueue
    /\ \A j \in 1..(i - 1) : decodeQueue[j].gen # decodeQueue[i].gen

FailsToDecode(i) == scenario = "decfail" /\ decodeQueue[i].id = FailFrame

Remove(q, i) == [j \in 1..(Len(q) - 1) |-> IF j < i THEN q[j] ELSE q[j + 1]]

\* The decoder's queue without the chunks of decoder g.
Purge(q, g) == SelectSeq(q, LAMBDA e : e.gen # g)

(* ------------------------------ initAudio ------------------------------ *)

\* History: initAudio writes start to nextPlayTime.
NewEpoch(start) ==
    /\ epoch' = epoch + 1
    /\ epochStart' = start
    /\ epochFrames' = NoFrames
    /\ schedLog' = <<>>
    /\ schedCount' = 0
    /\ firstStart' = 0
    /\ resynced' = {}
    /\ gaps' = {}

\* simple-js initAudio from `new AudioDecoder` on, and connectAndReceive up
\* to `await transport.ready`; now is audioContext.currentTime.
InitAudioRest(s, now) ==
    \E dec \in DecOutcomes :
        IF dec = "throw"
        THEN /\ pc' = [pc EXCEPT ![s] = "done"]
             /\ status' = "error"
             /\ UNCHANGED <<decoderVars, nextPlayTime, receivedChunkCount,
                            netVars, epochVars>>
        ELSE /\ decoderState' = "configured"
             /\ decoderGen' = s
             /\ nextPlayTime' = now
             /\ receivedChunkCount' = 0
             /\ NewEpoch(now)
             /\ transport' = s
             /\ tstate' = [tstate EXCEPT ![s] = "connecting"]
             /\ pc' = [pc EXCEPT ![s] = "ready"]
             /\ status' = "connecting"
             /\ UNCHANGED decodeQueue

\* A click in the simple-js client: connectAndReceive runs to its first await.
ClickSimple(s) ==
    /\ client = "simple"
    /\ MayStart(s)
    /\ \E ctx \in CtxOutcomes :
        CASE ctx = "throw" ->
                /\ pc' = [pc EXCEPT ![s] = "done"]
                /\ status' = "error"
                /\ UNCHANGED <<audioVars, decoderVars, nextPlayTime,
                               receivedChunkCount, netVars, epochVars>>
          [] ctx = "suspended" ->
                /\ audioContext' = "suspended"
                /\ ctxOwner' = s
                /\ currentTime' = 0
                /\ pc' = [pc EXCEPT ![s] = "resume"]
                /\ status' = "resuming"
                /\ UNCHANGED <<decoderVars, nextPlayTime, receivedChunkCount,
                               netVars, epochVars>>
          [] OTHER ->
                /\ audioContext' = "running"
                /\ ctxOwner' = s
                /\ currentTime' = 0
                /\ InitAudioRest(s, 0)
    /\ UNCHANGED <<client, scenario, sideVars, cause, emptySeen, leaked, connected, histVars>>

\* simple-js: `await audioContext.resume()` settles.
ResumeSimple(s) ==
    /\ pc[s] = "resume"
    /\ \E ok \in BOOLEAN :
        IF ok
        THEN /\ audioContext' = IF ctxOwner = s /\ audioContext = "suspended"
                                THEN "running" ELSE audioContext
             /\ InitAudioRest(s, currentTime)
        ELSE /\ pc' = [pc EXCEPT ![s] = "done"]
             /\ status' = "error"
             /\ UNCHANGED <<audioContext, decoderVars, nextPlayTime,
                            receivedChunkCount, netVars, epochVars>>
    /\ UNCHANGED <<client, scenario, sideVars, cause, emptySeen, leaked, ctxOwner,
                   currentTime, connected, histVars>>

\* A click in the root web client: the listener's guard, initAudio and
\* connectAndReceive up to `await transport.ready`.
ClickWeb(s) ==
    /\ client = "web"
    /\ MayStart(s)
    /\ ~connected
    /\ \E ctx \in CtxOutcomes, dec \in DecOutcomes :
        /\ IF ctx = "throw"
           THEN UNCHANGED <<audioVars, decoderState, decoderGen, nextPlayTime, epochVars>>
           ELSE /\ audioContext' = ctx
                /\ ctxOwner' = s
                /\ currentTime' = 0
                /\ IF dec = "throw"
                   THEN UNCHANGED <<decoderState, decoderGen, nextPlayTime, epochVars>>
                   ELSE /\ decoderState' = "configured"
                        /\ decoderGen' = s
                        /\ nextPlayTime' = 0
                        /\ NewEpoch(0)
        /\ IF audioContext' = "null" \/ decoderState' = "null"
           THEN /\ pc' = [pc EXCEPT ![s] = "done"]
                /\ status' = "initfail"
                /\ UNCHANGED netVars
           ELSE /\ transport' = s
                /\ tstate' = [tstate EXCEPT ![s] = "connecting"]
                /\ pc' = [pc EXCEPT ![s] = "ready"]
                /\ UNCHANGED status
    /\ UNCHANGED <<client, scenario, sideVars, cause, emptySeen, leaked, decodeQueue,
                   receivedChunkCount, connected, histVars>>

\* A click in the visualizer client: the guard on `connected`,
\* initAudioAndVisualizer and connectAndReceive up to `await transport.ready`.
\* A failed initialization closes the AudioContext in `audioContext` and sets
\* the variable to null.  This client keeps no nextPlayTime.
ClickViz(s) ==
    /\ client = "viz"
    /\ MayStart(s)
    /\ ~connected
    /\ \E ctx \in CtxOutcomes, dec \in DecOutcomes :
        IF ctx = "throw" \/ dec = "throw"
        THEN /\ audioContext' = "null"
             /\ ctxOwner' = 0
             /\ pc' = [pc EXCEPT ![s] = "done"]
             /\ status' = "initfail"
             /\ UNCHANGED <<currentTime, decoderState, decoderGen, netVars>>
        ELSE /\ audioContext' = ctx
             /\ ctxOwner' = s
             /\ currentTime' = 0
             /\ decoderState' = "configured"
             /\ decoderGen' = s
             /\ transport' = s
             /\ tstate' = [tstate EXCEPT ![s] = "connecting"]
             /\ pc' = [pc EXCEPT ![s] = "ready"]
             /\ status' = "connecting"
    /\ UNCHANGED <<client, scenario, sideVars, cause, emptySeen, leaked, decodeQueue,
                   nextPlayTime, receivedChunkCount, connected, histVars, epochVars>>

\* root web client: the promise of audioContext.resume() resolves.
ContextResumed ==
    /\ client = "web"
    /\ audioContext = "suspended"
    /\ audioContext' = "running"
    /\ UNCHANGED <<client, scenario, sideVars, cause, status, emptySeen, leaked, pc,
                   ctxOwner, currentTime, decoderVars, nextPlayTime,
                   receivedChunkCount, connected, netVars, histVars, epochVars>>

\* The device clock of the running AudioContext advances.
Tick ==
    /\ audioContext = "running"
    /\ MayTick
    /\ currentTime' = currentTime + 1
    /\ UNCHANGED <<client, scenario, sideVars, cause, status, emptySeen, leaked, pc,
                   audioContext, ctxOwner, decoderVars, nextPlayTime,
                   receivedChunkCount, connected, netVars, histVars, epochVars>>

(* --------------------------- connectAndReceive ------------------------- *)

EndSessionKeepsFlag(s, why) ==
    /\ pc' = [pc EXCEPT ![s] = "done"]
    /\ cause' = [cause EXCEPT ![s] = why]
    /\ CASE client = "simple" ->
                /\ status' = IF why = "error" THEN "error" ELSE status
                /\ UNCHANGED <<tstate, connected, audioContext>>
         [] client = "web" ->
                /\ tstate' = IF transport # 0
                             THEN [tstate EXCEPT ![transport] = "closed"]
                             ELSE tstate
                /\ connected' = connected
                /\ status' = IF transport # 0 THEN "disconnected"
                             ELSE IF why = "closed" THEN "streamclosed" ELSE status
                /\ audioContext' = IF audioContext # "null" THEN "closed" ELSE audioContext
         [] OTHER ->
                /\ tstate' = IF transport # 0
                             THEN [tstate EXCEPT ![transport] = "closed"]
                             ELSE tstate
                /\ connected' = connected
                /\ status' = CASE why = "error" -> "error"
                               [] why = "nostream" -> "nostream"
                               [] OTHER -> "disconnected"
                /\ UNCHANGED audioContext

\* How invocation s ends after `new WebTransport`; why is "error" (the
\* catch block ran), "closed" (the loop broke on done) or "nostream".
\* simple-js: the function returns; its catch shows the error.  Root web
\* client: the finally block closes the WebTransport in `transport`, clears
\* `connected`, shows "Disconnected" and closes the AudioContext in
\* `audioContext`.  Visualizer: the finally block clears `connected`, closes
\* the WebTransport in `transport`, and shows "Disconnected" in place of
\* "Stream closed.".
EndSession(s, why) ==
    /\ pc' = [pc EXCEPT ![s] = "done"]
    /\ cause' = [cause EXCEPT ![s] = why]
    /\ CASE client = "simple" ->
                /\ status' = IF why = "error" THEN "error" ELSE status
                /\ UNCHANGED <<tstate, connected, audioContext>>
         [] client = "web" ->
                /\ tstate' = IF transport # 0
                             THEN [tstate EXCEPT ![transport] = "closed"]
                             ELSE tstate
                /\ connected' = IF transport # 0 THEN FALSE ELSE connected
                /\ status' = IF transport # 0 THEN "disconnected"
                             ELSE IF why = "closed" THEN "streamclosed" ELSE status
                /\ audioContext' = IF audioContext # "null" THEN "closed" ELSE audioContext
         [] OTHER ->
                /\ tstate' = IF transport # 0
                             THEN [tstate EXCEPT ![transport] = "closed"]
                             ELSE tstate
                /\ connected' = FALSE
                /\ status' = CASE why = "error" -> "error"
                               [] why = "nostream" -> "nostream"
                               [] OTHER -> "disconnected"
                /\ UNCHANGED audioContext

\* `await transport.ready` resolves.
ReadyOk(s) ==
    /\ pc[s] = "ready"
    /\ tstate[s] = "connecting"
    /\ tstate' = [tstate EXCEPT ![s] = "open"]
    /\ connected' = IF client = "simple" THEN connected ELSE TRUE
    /\ status' = IF client = "simple" THEN status ELSE "connected"
    /\ pc' = [pc EXCEPT ![s] = "stream"]
    /\ UNCHANGED <<client, scenario, sideVars, cause, emptySeen, leaked, audioVars,
                   decoderVars, nextPlayTime, receivedChunkCount, transport,
                   histVars, epochVars>>

\* `await transport.ready` rejects: the connection failed or was closed.
ReadyFail(s) ==
    /\ Free
    /\ pc[s] = "ready"
    /\ EndSession(s, "error")
    /\ UNCHANGED <<client, scenario, sideVars, emptySeen, leaked, ctxOwner,
                   currentTime, decoderVars, nextPlayTime, receivedChunkCount,
                   transport, histVars, epochVars>>

\* The read of incomingUnidirectionalStreams yields a stream: the receive
\* loop is entered.
StreamOk(s) ==
    /\ pc[s] = "stream"
    /\ tstate[s] = "open"
    /\ pc' = [pc EXCEPT ![s] = "read"]
    /\ streamT0' = IF Free THEN streamT0 ELSE currentTime
    /\ status' = IF client = "simple" THEN "receiving" ELSE status
    /\ UNCHANGED <<client, scenario, sideVars, cause, emptySeen, leaked, audioVars,
                   decoderVars, nextPlayTime, receivedChunkCount, connected,
                   netVars, chunksRead, skipped, failed, epochVars>>

\* The read of incomingUnidirectionalStreams reports done.  simple-js closes
\* the WebTransport in `transport` and returns; in the root web client
\* `stream.getReader()` throws on the undefined stream; the visualizer shows
\* "Failed to get stream." and returns through its finally block.
StreamNoneLeavesOpen(s) ==
    /\ Free
    /\ pc[s] = "stream"
    /\ tstate[s] = "open"
    /\ pc' = [pc EXCEPT ![s] = "done"]
    /\ cause' = [cause EXCEPT ![s] = "nostream"]
    /\ status' = "nostream"
    /\ UNCHANGED <<client, scenario, sideVars, emptySeen, leaked, audioVars,
                   decoderVars, nextPlayTime, receivedChunkCount, connected,
                   netVars, histVars, epochVars>>

StreamNone(s) ==
    /\ Free
    /\ pc[s] = "stream"
    /\ tstate[s] = "open"
    /\ CASE client = "simple" ->
                /\ pc' = [pc EXCEPT ![s] = "done"]
                /\ tstate' = IF transport # 0
                             THEN [tstate EXCEPT ![transport] = "closed"]
                             ELSE tstate
                /\ status' = "nostream"
                /\ cause' = [cause EXCEPT ![s] = "nostream"]
                /\ UNCHANGED <<connected, audioContext>>
         [] client = "web" -> EndSession(s, "error")
         [] OTHER -> EndSession(s, "nostream")
    /\ UNCHANGED <<client, scenario, sideVars, emptySeen, leaked, ctxOwner,
                   currentTime, decoderVars, nextPlayTime, receivedChunkCount,
                   transport, histVars, epochVars>>

\* Mutant: after a failed read the invocation connects again by itself.
ReadErrorRetries(s) ==
    /\ Free
    /\ pc[s] \in {"stream", "read"}
    /\ cause[s] # "error"
    /\ cause' = [cause EXCEPT ![s] = "error"]
    /\ pc' = [pc EXCEPT ![s] = "ready"]
    /\ tstate' = [tstate EXCEPT ![s] = "connecting"]
    /\ status' = "connecting"
    /\ UNCHANGED <<client, scenario, sideVars, emptySeen, leaked, audioVars,
                   decoderVars, nextPlayTime, receivedChunkCount, connected,
                   transport, histVars, epochVars>>

\* A read of the session's stream or of its incoming streams rejects.
ReadError(s) ==
    /\ Free
    /\ pc[s] \in {"stream", "read"}
    /\ EndSession(s, "error")
    /\ UNCHANGED <<client, scenario, sideVars, emptySeen, leaked, ctxOwner,
                   currentTime, decoderVars, nextPlayTime, receivedChunkCount,
                   transport, histVars, epochVars>>

\* Mutant: done is treated like an empty value, the loop reads on.
ReadDoneContinues(s) ==
    /\ pc[s] = "read"
    /\ tstate[s] = "open"
    /\ MayReadDone
    /\ cause[s] # "closed"
    /\ cause' = [cause EXCEPT ![s] = "closed"]
    /\ UNCHANGED <<client, scenario, sideVars, status, emptySeen, leaked, pc,
                   audioVars, decoderVars, nextPlayTime, receivedChunkCount,
                   connected, netVars, histVars, epochVars>>

\* reader.read() reports done: the loop breaks.
ReadDone(s) ==
    /\ pc[s] = "read"
    /\ tstate[s] = "open"
    /\ MayReadDone
    /\ EndSession(s, "closed")
    /\ UNCHANGED <<client, scenario, sideVars, emptySeen, leaked, ctxOwner,
                   currentTime, decoderVars, nextPlayTime, receivedChunkCount,
                   transport, histVars, epochVars>>

\* reader.read() yields an empty value (done is false): the test on the
\* value's length fails and the loop goes on to the next read.
ReadEmpty(s) ==
    /\ Free
    /\ pc[s] = "read"
    /\ tstate[s] = "open"
    /\ emptySeen' = IF emptySeen = {} THEN {chunksRead} ELSE emptySeen
    /\ UNCHANGED <<client, scenario, sideVars, cause, status, leaked, pc, audioVars,
                   decoderVars, nextPlayTime, receivedChunkCount, connected,
                   netVars, histVars, epochVars>>

\* The timestamp of the EncodedAudioChunk, in microseconds.
Timestamp ==
    IF client = "simple"
    THEN receivedChunkCount * FRAME_DURATION_MS * 1000
    ELSE currentTime * 1000

\* Mutant: the chunk is submitted whatever the decoder's state.
DecoderReadyAlways == TRUE

\* The guard before audioDecoder.decode(chunk).
DecoderReady == decoderState = "configured"

\* reader.read() yields a non-empty value: one EncodedAudioChunk is built and,
\* when the decoder is configured, submitted to it; otherwise it is skipped
\* with a warning.  In the visualizer `audioContext.currentTime` throws when a
\* failed initialization has set audioContext to null, which ends the session
\* through the catch block.
ReadChunk(s) ==
    /\ pc[s] = "read"
    /\ tstate[s] = "open"
    /\ MayReadChunk
    /\ chunksRead' = chunksRead + 1
    /\ receivedChunkCount' = IF client = "simple"
                             THEN receivedChunkCount + 1
                             ELSE receivedChunkCount
    /\ IF client = "viz" /\ audioContext = "null"
       THEN /\ EndSession(s, "error")
            /\ UNCHANGED <<decodeQueue, skipped, transport>>
       ELSE /\ IF DecoderReady
               THEN /\ decodeQueue' = Append(decodeQueue,
                                        [gen |-> decoderGen, id |-> chunksRead + 1,
                                         ts |-> Timestamp, by |-> s])
                    /\ UNCHANGED skipped
               ELSE /\ skipped' = skipped \cup {chunksRead + 1}
                    /\ UNCHANGED decodeQueue
            /\ UNCHANGED <<pc, audioContext, connected, netVars, status, cause>>
    /\ UNCHANGED <<client, scenario, sideVars, emptySeen, leaked, ctxOwner,
                   currentTime, decoderState, decoderGen, nextPlayTime, failed,
                   streamT0, epochVars>>

(* --------------------------- the decoder's callbacks ------------------- *)

\* Decoding the oldest chunk of a decoder fails.  WebCodecs closes that
\* decoder (dropping its queued work) and then calls its error callback,
\* which logs; in simple-js it also shows the error.
DecodeError(i) ==
    /\ Oldest(i)
    /\ Free \/ FailsToDecode(i)
    /\ failed' = failed \cup {decodeQueue[i].id}
    /\ decodeQueue' = Purge(decodeQueue, decodeQueue[i].gen)
    /\ decoderState' = IF decodeQueue[i].gen = decoderGen
                       THEN "closed" ELSE decoderState
    /\ status' = IF client = "simple" THEN "decodererror" ELSE status
    /\ UNCHANGED <<client, scenario, sideVars, cause, emptySeen, leaked, pc, audioVars,
                   decoderGen, nextPlayTime, receivedChunkCount, connected,
                   netVars, chunksRead, skipped, streamT0, epochVars>>

\* Mutant: no underrun branch, the stale cursor is used.
scheduleTimeStale(npt, now) == npt

\* Mutant: <= for <, a frame handled just as the cursor is reached is resynchronized.
scheduleTimeEager(npt, now) ==
    IF npt <= now THEN now + RESYNC_MARGIN_MS ELSE npt

\* simple-js: const scheduleTime = (nextPlayTime < currentTime) ? currentTime + 0.005 : nextPlayTime
scheduleTime(npt, now) ==
    IF npt < now THEN now + RESYNC_MARGIN_MS ELSE npt

\* Mutant: the cursor is used without Math.max.
startAtCursor(npt, now) == npt

\* root web client: const startAt = Math.max(nextPlayTime, audioContext.currentTime)
startAt(npt, now) == Max(npt, now)

\* The start time the loaded client passes to sourceNode.start.
StartTime(npt, now) ==
    IF client = "simple" THEN scheduleTime(npt, now) ELSE startAt(npt, now)

\* Mutant: the nominal frame duration is added instead of the buffer's.
AdvanceNominal(start, dur) == start + FRAME_DURATION_MS

\* Mutant: the cursor is set to the start time, the duration is not added.
AdvanceNone(start, dur) == start

\* The cursor after a frame of duration dur was started at start.
Advance(start, dur) == start + dur

\* When a scheduled frame ends.
EndOf(frame) == frame.start + frame.dur

LastTwo(log) == IF Len(log) > 2 THEN Tail(log) ELSE log

\* The guard at the head of handleDecodedChunk: simple-js drops the frame
\* when the AudioContext is missing or closed, the visualizer when it is
\* missing; the root web client has no such guard.
DropsFrame ==
    \/ client = "simple" /\ audioContext \in {"null", "closed"}
    \/ client = "viz" /\ audioContext = "null"

\* History and cursor once frame id of duration dur, handled with the clock
\* read as now, was passed to sourceNode.start(start).
Scheduled(id, now, start, dur) ==
    LET frame == [id |-> id, npt |-> nextPlayTime, now |-> now,
                  start |-> start, dur |-> dur, epoch |-> epoch]
    IN  /\ nextPlayTime' = Advance(start, dur)
        /\ schedLog' = LastTwo(Append(schedLog, frame))
        /\ schedCount' = schedCount + 1
        /\ firstStart' = IF schedCount = 0 THEN start ELSE firstStart
        /\ resynced' = IF nextPlayTime < now
                       THEN resynced \cup {id} ELSE resynced
        /\ gaps' = IF schedLog # <<>> /\ start # EndOf(schedLog[Len(schedLog)])
                   THEN gaps \cup {id} ELSE gaps
        /\ epochFrames' =
               [dur |-> IF schedCount = 0 \/ epochFrames.dur = dur
                        THEN dur ELSE -1,
                resync |-> epochFrames.resync \/ nextPlayTime < now]

NotScheduled ==
    UNCHANGED <<nextPlayTime, schedLog, schedCount, firstStart, resynced, gaps,
                epochFrames>>

\* handleDecodedChunk on the oldest chunk of a decoder, decoded to a frame of
\* duration dur.  A dropped frame is closed.  Building the buffer or starting
\* the source may throw (thrown): simple-js lets the exception escape, the
\* other two log it; nothing is scheduled and audioData.close() is not
\* reached.  The visualizer starts the source at once, without a cursor.
HandleDecodedChunk(i) ==
    /\ Oldest(i)
    /\ ~FailsToDecode(i)
    /\ decodeQueue' = Remove(decodeQueue, i)
    /\ \E dur \in (IF Free THEN Durations ELSE {FRAME_DURATION_MS}),
          thrown \in (IF Free THEN BOOLEAN ELSE {FALSE}) :
        CASE DropsFrame ->
                /\ NotScheduled
                /\ UNCHANGED leaked
          [] ~DropsFrame /\ thrown ->
                /\ NotScheduled
                /\ leaked' = leaked \cup {decodeQueue[i].id}
          [] ~DropsFrame /\ ~thrown /\ client = "viz" ->
                /\ NotScheduled
                /\ UNCHANGED leaked
          [] OTHER ->
                /\ Scheduled(decodeQueue[i].id, currentTime,
                             StartTime(nextPlayTime, currentTime), dur)
                /\ UNCHANGED leaked
    /\ UNCHANGED <<client, scenario, sideVars, cause, status, emptySeen, pc, audioVars,
                   decoderState, decoderGen, receivedChunkCount, connected,
                   netVars, chunksRead, skipped, failed, streamT0, epoch,
                   epochStart>>

\* Some decoder fails on its oldest chunk.
DecoderFailure == \E i \in DOMAIN decodeQueue : DecodeError(i)

\* Some decoder outputs its oldest chunk.
DecoderOutput == \E i \in DOMAIN decodeQueue : HandleDecodedChunk(i)

(* ------------------------------ specification -------------------------- *)

Next ==
    \/ \E s \in Sessions : ClickSimple(s)
    \/ \E s \in Sessions : ResumeSimple(s)
    \/ \E s \in Sessions : ClickWeb(s)
    \/ \E s \in Sessions : ClickViz(s)
    \/ ContextResumed
    \/ Tick
    \/ \E s \in Sessions : ReadyOk(s)
    \/ \E s \in Sessions : ReadyFail(s)
    \/ \E s \in Sessions : StreamOk(s)
    \/ \E s \in Sessions : StreamNone(s)
    \/ \E s \in Sessions : ReadError(s)
    \/ \E s \in Sessions : ReadDone(s)
    \/ \E s \in Sessions : ReadEmpty(s)
    \/ \E s \in Sessions : ReadChunk(s)
    \/ DecoderFailure
    \/ DecoderOutput

\* Any clicks: a click may come while earlier sessions are still running.
Spec == Init /\ [][Next]_vars

\* At most one invocation of connectAndReceive is under way.
OneAtATime == Cardinality({s \in Sessions : pc[s] \notin {"idle", "done"}}) <= 1

\* A patient user: the next click comes only after the session before it ended.
NextSeq == Next /\ OneAtATime'

SpecSeq == Init /\ [][NextSeq]_vars

\* A single click: one invocation of connectAndReceive and no other.
Solo == \A s \in Sessions : s > 1 => pc[s] = "idle"

NextSolo ==
    \/ ClickSimple(1)
    \/ ResumeSimple(1)
    \/ ClickWeb(1)
    \/ ClickViz(1)
    \/ ContextResumed
    \/ Tick
    \/ ReadyOk(1)
    \/ ReadyFail(1)
    \/ StreamOk(1)
    \/ StreamNone(1)
    \/ ReadError(1)
    \/ ReadDone(1)
    \/ ReadEmpty(1)
    \/ ReadChunk(1)
    \/ DecoderFailure
    \/ DecoderOutput

SpecSolo == Init /\ [][NextSolo]_vars

(* ------------------- handleDecodedChunk, line by line ------------------ *)

\* The frame handling of the playing clients followed statement by statement:
\* the read of audioContext.currentTime, the choice of the start time, and
\* sourceNode.start with the update of nextPlayTime.  The other callbacks of
\* the page (click, settled awaits of connectAndReceive, decoder callbacks)
\* run only when the call under way has returned or yields at an await.

\* Mutant: the handler is async and awaits between its statements.
HandlerYieldsAnywhere == TRUE

\* handleDecodedChunk is a plain function without await: once entered it runs
\* to its return before any other callback of the page runs.
HandlerYields == FALSE

\* Another callback of the page may run now.
MayInterleave == handling = NoCall \/ HandlerYields

\* simple-js line 79, web line 55: the decoder delivers its oldest chunk as a
\* frame that is neither dropped nor makes the handler throw, and the handler
\* reads the device clock.
ReadClock(i) ==
    /\ handling = NoCall
    /\ client \in {"simple", "web"}
    /\ Oldest(i)
    /\ ~FailsToDecode(i)
    /\ ~DropsFrame
    /\ decodeQueue' = Remove(decodeQueue, i)
    /\ \E dur \in (IF Free THEN Durations ELSE {FRAME_DURATION_MS}) :
           handling' = [step |-> "clock", id |-> decodeQueue[i].id,
                        now |-> currentTime, dur |-> dur,
                        npt |-> nextPlayTime, start |-> 0]
    /\ UNCHANGED <<client, scenario, cause, status, emptySeen, leaked, pc,
                   audioVars, decoderState, decoderGen, nextPlayTime,
                   receivedChunkCount, connected, netVars, histVars, epochVars,
                   ringVars>>

\* simple-js line 80, web line 55: nextPlayTime is read and the start time chosen.
ChooseTime ==
    /\ handling.step = "clock"
    /\ handling' = [handling EXCEPT !.step = "chosen",
                                    !.npt = nextPlayTime,
                                    !.start = StartTime(nextPlayTime, handling.now)]
    /\ UNCHANGED <<client, scenario, cause, status, emptySeen, leaked, pc,
                   audioVars, decoderVars, nextPlayTime, receivedChunkCount,
                   connected, netVars, histVars, epochVars, ringVars>>

\* simple-js lines 82-85, web lines 56-59: the source is started at the chosen
\* time, nextPlayTime is advanced from it and the frame is closed.
StartAndAdvance ==
    /\ handling.step = "chosen"
    /\ Scheduled(handling.id, handling.now, handling.start, handling.dur)
    /\ handling' = NoCall
    /\ UNCHANGED <<client, scenario, cause, status, emptySeen, leaked, pc,
                   audioVars, decoderVars, receivedChunkCount, connected,
                   netVars, histVars, epoch, epochStart, ringVars>>

\* A call of handleDecodedChunk that returns without scheduling: the frame is
\* dropped, or building the buffer throws.
HandleUnscheduled ==
    /\ client \in {"simple", "web"}
    /\ DecoderOutput
    /\ schedCount' = schedCount

\* One page with the handler followed line by line.  A second click is
\* followed through its audio initialization; its connection stays pending.
NextSteps ==
    \/ MayInterleave /\ \E s \in {1, 2} : ClickSimple(s)
    \/ MayInterleave /\ \E s \in {1, 2} : ResumeSimple(s)
    \/ MayInterleave /\ \E s \in {1, 2} : ClickWeb(s)
    \/ MayInterleave /\ ContextResumed
    \/ Tick
    \/ MayInterleave /\ ReadyOk(1)
    \/ MayInterleave /\ ReadyFail(1)
    \/ MayInterleave /\ StreamOk(1)
    \/ MayInterleave /\ StreamNone(1)
    \/ MayInterleave /\ ReadError(1)
    \/ MayInterleave /\ ReadDone(1)
    \/ MayInterleave /\ ReadEmpty(1)
    \/ MayInterleave /\ ReadChunk(1)
    \/ MayInterleave /\ DecoderFailure
    \/ MayInterleave /\ HandleUnscheduled
    \/ \E i \in DOMAIN decodeQueue : ReadClock(i)
    \/ ChooseTime
    \/ StartAndAdvance

InitSteps == Init /\ client \in {"simple", "web"} /\ scenario = "free"

SpecSteps == InitSteps /\ [][NextSteps]_vars

(* ------------------------- the Frame Ring Buffer ----------------------- *)

\* A buffer of capacity c: c slots, none occupied.  Slot 0 is an empty slot.
RingBuffer(c) == [cap |-> c, data |-> [k \in 1..c |-> 0], head |-> 0, len |-> 0]

len(rb) == rb.len

capacity(rb) == rb.cap

is_full(rb) == rb.len = rb.cap

\* The slot of the k-th item after the oldest, the slots being used in a circle.
slot(rb, k) == ((rb.head + k) % rb.cap) + 1

\* The items in iteration order: oldest first.
iter(rb) == [k \in 1..rb.len |-> rb.data[slot(rb, k - 1)]]

pushRejecting(rb, item) ==
    IF is_full(rb)
    THEN rb
    ELSE [rb EXCEPT !.data[slot(rb, rb.len)] = item, !.len = rb.len + 1]

\* push(item): into the next free slot; if full, over the oldest item, the
\* one after it becoming the oldest.
push(rb, item) ==
    IF is_full(rb)
    THEN [rb EXCEPT !.data[slot(rb, 0)] = item, !.head = (rb.head + 1) % rb.cap]
    ELSE [rb EXCEPT !.data[slot(rb, rb.len)] = item, !.len = rb.len + 1]

\* push_bulk(items): the items are pushed one after the other.
RECURSIVE push_bulk(_, _)
push_bulkChecked(rb, items) ==
    IF items = <<>> \/ capacity(rb) - len(rb) < Len(items) THEN rb
    ELSE push_bulk(push(rb, Head(items)), Tail(items))

push_bulk(rb, items) ==
    IF items = <<>> THEN rb
    ELSE push_bulk(push(rb, Head(items)), Tail(items))

\* pop(): takes the oldest item out and returns it; nothing (0) if empty.
pop(rb) ==
    IF rb.len = 0
    THEN [ring |-> rb, out |-> 0]
    ELSE [ring |-> [rb EXCEPT !.data[slot(rb, 0)] = 0,
                              !.head = (rb.head + 1) % rb.cap,
                              !.len = rb.len - 1],
          out |-> rb.data[slot(rb, 0)]]

\* A buffer of some capacity is created.
RingNew ==
    /\ ringBuf = NoRing
    /\ \E c \in 1..MaxCapacity : ringBuf' = RingBuffer(c)
    /\ UNCHANGED <<pageVars, ringPushed, ringOut, ringBulk>>

\* The producer pushes the next item.
RingPush ==
    /\ ringBuf # NoRing
    /\ ringPushed < MaxPushes
    /\ ringBuf' = push(ringBuf, ringPushed + 1)
    /\ ringPushed' = ringPushed + 1
    /\ UNCHANGED <<pageVars, ringOut, ringBulk>>

\* The producer pushes the next n items as one operation.
RingPushBulk ==
    /\ ringBuf # NoRing
    /\ \E n \in 2..MaxBulk :
        /\ ringPushed + n <= MaxPushes
        /\ ringBuf' = push_bulk(ringBuf, [k \in 1..n |-> ringPushed + k])
        /\ ringPushed' = ringPushed + n
        /\ ringBulk' = [n |-> n, free |-> capacity(ringBuf) - len(ringBuf)]
    /\ UNCHANGED <<pageVars, ringOut>>

\* The consumer pops.
RingPop ==
    /\ ringBuf # NoRing
    /\ ringBuf' = pop(ringBuf).ring
    /\ ringOut' = pop(ringBuf).out
    /\ UNCHANGED <<pageVars, ringPushed, ringBulk>>

\* The ring buffer alone, its producer and its consumer taking turns in any
\* order (the operations are mutually exclusive).
NextRing ==
    \/ RingNew
    \/ RingPush
    \/ RingPushBulk
    \/ RingPop

InitRing == Init /\ client = "simple" /\ scenario = "free"

SpecRing == InitRing /\ [][NextRing]_vars

(* ------------------------------- claims -------------------------------- *)

\* The frame scheduled last since initAudio last wrote nextPlayTime.
Last == schedLog[Len(schedLog)]

Underrun(frame) == frame.npt < frame.now

\* The session has ended and the decoder has nothing left to output.
Finished == pc[1] = "done" /\ decodeQueue = <<>>

\* C1: every frame handed to the audio device is started at or after the
\* device clock read in the same call of handleDecodedChunk, in both playing
\* clients: no frame is scheduled into the past.
C1_NeverInThePast ==
    \A k \in DOMAIN schedLog : schedLog[k].start >= schedLog[k].now

\* A frame that follows another is handled after the clock has passed the cursor.
C1_Witness ==
    /\ Len(schedLog) = 2
    /\ Underrun(schedLog[2])
    /\ schedLog[2].start >= schedLog[2].now

\* C2: in both playing clients a frame handled with nextPlayTime < now is
\* started at exactly now + 5 ms.
C2_ResyncAtNowPlusMargin ==
    \A k \in DOMAIN schedLog :
        Underrun(schedLog[k]) => schedLog[k].start = schedLog[k].now + RESYNC_MARGIN_MS

\* C3: while no frame since initAudio wrote nextPlayTime was handled with
\* nextPlayTime < now and all of them have one duration d, the n-th of them
\* (from 0) is started at start + n*d, start being the value initAudio wrote;
\* a frame handled with nextPlayTime = now is started at nextPlayTime.
C3_Gapless ==
    /\ (schedCount >= 1 /\ ~epochFrames.resync /\ epochFrames.dur > 0)
           => Last.start = epochStart + (schedCount - 1) * epochFrames.dur
    /\ \A k \in DOMAIN schedLog :
           schedLog[k].npt = schedLog[k].now => schedLog[k].start = schedLog[k].npt

\* A third frame in a row without underrun, handled just as the cursor is reached.
C3_Witness ==
    /\ schedCount >= 3
    /\ ~epochFrames.resync
    /\ epochFrames.dur > 0
    /\ Last.npt = Last.now
    /\ Last.start = epochStart + (schedCount - 1) * epochFrames.dur

\* C4: after a frame was handed to the audio device, nextPlayTime is that
\* frame's start plus its duration; of two frames handled one after the other
\* with no initAudio between them, the second starts no earlier than the
\* first ends, and exactly when it ends unless the second was handled with
\* nextPlayTime < now.
C4_CursorIsEndOfLast ==
    /\ schedCount >= 1 => nextPlayTime = EndOf(Last)
    /\ Len(schedLog) = 2 =>
           /\ schedLog[2].start >= EndOf(schedLog[1])
           /\ schedLog[2].start = EndOf(schedLog[1]) \/ Underrun(schedLog[2])

\* Two frames of different durations, the second contiguous with the first.
C4_Witness ==
    /\ Len(schedLog) = 2
    /\ schedLog[1].dur # schedLog[2].dur
    /\ schedLog[2].start = EndOf(schedLog[1])
    /\ nextPlayTime = EndOf(schedLog[2])

\* An invocation of connectAndReceive that has initialized nextPlayTime and
\* has not ended.
Running(p) == p \in {"ready", "stream", "read"}

\* C5: while a session that has initialized nextPlayTime is under way,
\* no step makes nextPlayTime smaller.
C5_CursorMonotonic ==
    [][(\E s \in Sessions : Running(pc[s]) /\ Running(pc'[s]))
           => nextPlayTime' >= nextPlayTime]_vars

\* The lead a burst of MaxChunks frames of FRAME_DURATION_MS builds up.
BurstLead == RESYNC_MARGIN_MS + MaxChunks * FRAME_DURATION_MS

\* C6: the audio scheduled ahead of the device clock stays below a bound that
\* does not depend on how the chunks arrive.  Stated for the frames of a free
\* run, all of FRAME_DURATION_MS: the lead stays below what a burst of all of
\* them adds up to.
C6_LatencyBounded ==
    (Free /\ epochFrames.dur = FRAME_DURATION_MS)
        => nextPlayTime - currentTime < BurstLead

\* C7 as claimed: the steady script schedules all NumFrames frames over
\* exactly NumFrames * FRAME_DURATION_MS, each starting where the one before
\* ends, and no frame, the first included, is handled with nextPlayTime < now.
C7_SteadyNoResync ==
    (scenario = "steady" /\ Finished) =>
        /\ schedCount = NumFrames
        /\ EndOf(Last) - firstStart = NumFrames * FRAME_DURATION_MS
        /\ gaps = {}
        /\ resynced = {}

\* C7 as amended: as above, except that the first frame, and only the first,
\* is handled with nextPlayTime < now exactly when the device clock advanced
\* between initAudio and the entry of the receive loop.
C7_SteadyOneResync ==
    (scenario = "steady" /\ Finished) =>
        /\ schedCount = NumFrames
        /\ EndOf(Last) - firstStart = NumFrames * FRAME_DURATION_MS
        /\ gaps = {}
        /\ resynced = IF streamT0 > epochStart THEN {1} ELSE {}

\* The steady script has run to its end after a connection that took time.
C7_Witness ==
    /\ scenario = "steady"
    /\ Finished
    /\ schedCount = NumFrames
    /\ resynced = {1}

\* C8: in the stall script exactly one frame from StallFirst on, StallFirst
\* itself, is handled with nextPlayTime < now, and every frame after it starts
\* where the frame before it ends.
C8_OneResyncPerStall ==
    scenario = "stall" =>
        /\ resynced \subseteq {1, StallFirst}
        /\ gaps \subseteq {StallFirst}
        /\ schedCount >= StallFirst => StallFirst \in resynced
        /\ Finished => schedCount = NumFrames

\* The stall script has run to its end.
C8_Witness ==
    /\ scenario = "stall"
    /\ Finished
    /\ schedCount = NumFrames
    /\ StallFirst \in resynced
    /\ gaps = {StallFirst}

\* C9: when decoding frame FailFrame fails, only that frame is lost: every
\* other frame is submitted and scheduled, NumFrames - 1 in all.
C9_OnlyFailedFrameLost ==
    (scenario = "decfail" /\ Finished) =>
        /\ failed = {FailFrame}
        /\ skipped = {}
        /\ schedCount = NumFrames - 1

\* C10: each non-empty chunk read is submitted to the decoder exactly when
\* the decoder is configured at that moment; otherwise it is skipped, the
\* decoder's queue is left as it is, and the receive loop goes on to its next
\* read either way.  A skipped chunk is never submitted later.
C10_ReadinessGuard ==
    /\ [](\A k \in DOMAIN decodeQueue : decodeQueue[k].id \notin skipped)
    /\ [][chunksRead' = chunksRead + 1 =>
            /\ pc' = pc
            /\ IF decoderState = "configured"
               THEN /\ Len(decodeQueue') = Len(decodeQueue) + 1
                    /\ decodeQueue'[Len(decodeQueue')].id = chunksRead'
                    /\ decodeQueue'[Len(decodeQueue')].gen = decoderGen
                    /\ skipped' = skipped
               ELSE /\ decodeQueue' = decodeQueue
                    /\ skipped' = skipped \cup {chunksRead'}]_vars

\* A chunk was skipped after an earlier one was scheduled, and the loop reads on.
C10_Witness ==
    /\ skipped # {}
    /\ schedCount >= 1
    /\ pc[1] = "read"

\* C11: every chunk submitted to the decoder carries the timestamp
\* index * FRAME_DURATION_MS * 1000 microseconds, index being its place (from
\* 0) among the non-empty chunks of the session, so the timestamps of the
\* chunks awaiting decoding increase strictly in submission order; in every
\* client.
C11_TimestampFromIndex ==
    /\ \A k \in DOMAIN decodeQueue :
           decodeQueue[k].ts = (decodeQueue[k].id - 1) * FRAME_DURATION_MS * 1000
    /\ \A j, k \in DOMAIN decodeQueue :
           j < k => decodeQueue[j].ts < decodeQueue[k].ts

\* C12: chunks are submitted to the decoder in the order they were read, and
\* decoded frames are scheduled in that order: of two frames scheduled one
\* after the other the second was read later and starts no earlier, a
\* scheduled frame is not awaiting decoding any more (it is not scheduled
\* twice), and every chunk still awaiting decoding was read after every frame
\* scheduled.
C12_InArrivalOrder ==
    /\ \A j, k \in DOMAIN decodeQueue :
           j < k => decodeQueue[j].id < decodeQueue[k].id
    /\ Len(schedLog) = 2 =>
           /\ schedLog[1].id < schedLog[2].id
           /\ schedLog[1].start <= schedLog[2].start
    /\ \A f \in DOMAIN schedLog, q \in DOMAIN decodeQueue :
           schedLog[f].id < decodeQueue[q].id

\* C13 as claimed: once a read of the stream gave an empty value, or reported
\* done, the receive loop has ended and no further chunk is read.
C13_EmptyOrDoneEndsLoop ==
    /\ \A n \in emptySeen : pc[1] = "done" /\ chunksRead = n
    /\ cause[1] = "closed" => pc[1] = "done"

\* C13 as amended: a read that reports done ends the receive loop, and an
\* invocation that has ended reads and submits nothing more; an empty value
\* does not end it: nothing is submitted for it and the loop goes on to its
\* next read.
C13_DoneEndsLoop ==
    /\ [](cause[1] = "closed" => pc[1] = "done")
    /\ [][/\ pc[1] = "done" =>
                /\ pc'[1] = "done"
                /\ chunksRead' = chunksRead
                /\ Len(decodeQueue') <= Len(decodeQueue)
          /\ emptySeen' # emptySeen =>
                /\ pc' = pc
                /\ chunksRead' = chunksRead
                /\ decodeQueue' = decodeQueue]_vars

\* A chunk was read after an empty value, then the stream was closed.
C13_Witness ==
    /\ \E n \in emptySeen : chunksRead > n
    /\ cause[1] = "closed"
    /\ pc[1] = "done"

\* C14: a failed connection or a failed read ends the invocation at once with
\* an error or "Disconnected" status on the page; an invocation that has ended
\* stays ended, submits nothing more, and its transport is not reopened: a
\* WebTransport is opened only by a click, at the end of the audio
\* initialization of an invocation that had not connected before.
C14_ErrorIsTerminal ==
    /\ [](\A s \in Sessions : cause[s] = "error" => pc[s] = "done")
    /\ [][\A s \in Sessions :
            /\ (cause[s] # "error" /\ cause'[s] = "error")
                   => status' \in {"error", "disconnected"}
            /\ pc[s] = "done" =>
                   /\ pc'[s] = "done"
                   /\ tstate'[s] \in {tstate[s], "closed"}
                   /\ \A k \in DOMAIN decodeQueue' :
                          decodeQueue'[k].by = s =>
                              \E j \in DOMAIN decodeQueue : decodeQueue[j] = decodeQueue'[k]
            /\ (tstate[s] # "connecting" /\ tstate'[s] = "connecting")
                   => pc[s] \in {"idle", "resume"}]_vars

\* A read failed after a chunk had been read and submitted.
C14_Witness ==
    /\ cause[1] = "error"
    /\ chunksRead >= 1
    /\ pc[1] = "done"
    /\ status \in {"error", "disconnected"}

\* C15: the AudioContext is never closed while the decoder still holds a
\* chunk it can output, and no frame is scheduled once the invocation has
\* left its receive loop and ended.
C15_TeardownInOrder ==
    /\ [](audioContext = "closed" => decodeQueue = <<>>)
    /\ [][schedCount' > schedCount => pc[1] # "done"]_vars

\* C16: once an invocation of a playing client has ended because its stream
\* was closed or a connection or read failed, its transport is closed, the
\* AudioContext is closed, nextPlayTime is back at its initial value and the
\* page shows a terminal status.
C16_EndReleasesAll ==
    (client \in {"simple", "web"} /\ cause[1] \in {"closed", "error"}) =>
        /\ tstate[1] = "closed"
        /\ audioContext = "closed"
        /\ nextPlayTime = 0
        /\ status \in {"error", "disconnected", "streamclosed"}

\* C17: from the read of the device clock to the update of nextPlayTime a
\* call of handleDecodedChunk is not interleaved with any other callback: in
\* between nobody writes nextPlayTime, no chunk is read or submitted, no other
\* decoder callback runs and no initialization starts, so the value written
\* is the start time chosen from the cursor and the clock of that same call,
\* plus the frame's duration.
C17_SchedulingAtomic ==
    /\ [](handling.step = "chosen" => handling.npt = nextPlayTime)
    /\ [][handling.step # "none" =>
            /\ pc' = pc
            /\ decodeQueue' = decodeQueue
            /\ epoch' = epoch
            /\ chunksRead' = chunksRead
            /\ IF handling'.step # "none"
               THEN nextPlayTime' = nextPlayTime
               ELSE nextPlayTime' =
                        Advance(StartTime(nextPlayTime, handling.now), handling.dur)]_vars

\* A second frame is about to be started while a second click is possible.
C17_Witness ==
    /\ handling.step = "chosen"
    /\ schedCount >= 1
    /\ pc[1] = "read"
    /\ pc[2] = "idle"
    /\ handling.npt < handling.now

\* C18: in the jitter script, where every frame is on time but one that is
\* handled JitterMs (one frame duration at most) late, no frame after the
\* first is handled with nextPlayTime < now; and in the stall script every
\* frame handled is started at or after the clock, with no step other than
\* the handling of frames.  In every playing client.
C18_ToleratesJitter ==
    /\ scenario = "jitter" => resynced \subseteq {1}
    /\ scenario = "stall" => \A k \in DOMAIN schedLog : schedLog[k].start >= schedLog[k].now

\* C19: every frame the decoder delivered has been released when its handler
\* returns, whichever way it returns: scheduled, dropped, or thrown.
C19_EveryFrameReleased == leaked = {}

\* C20: the ring buffer never holds more items than its capacity; the items
\* it holds are, oldest first, the last len() pushed, in the order they were
\* pushed (so that after more than C pushes and no pop they are exactly the
\* last C); and pop returns the oldest of them and leaves the others.
C20_RingKeepsLastC ==
    /\ [](ringBuf # NoRing =>
            /\ len(ringBuf) >= 0
            /\ len(ringBuf) <= capacity(ringBuf)
            /\ \A k \in 1..len(ringBuf) :
                   iter(ringBuf)[k] = ringPushed - len(ringBuf) + k
            /\ (ringOut = NoPop /\ ringPushed > capacity(ringBuf))
                   => len(ringBuf) = capacity(ringBuf))
    /\ [][(ringPushed' = ringPushed /\ ringBuf # NoRing /\ ringBuf' # ringBuf)
            => /\ ringOut' = Head(iter(ringBuf))
               /\ iter(ringBuf') = Tail(iter(ringBuf))]_vars

\* More items than the capacity were pushed into a buffer of capacity 2 or
\* more and none was popped: it holds the last C, and has wrapped around.
C20_Witness ==
    /\ capacity(ringBuf) >= 2
    /\ ringPushed > capacity(ringBuf)
    /\ ringOut = NoPop
    /\ ringBuf.head # 0
    /\ iter(ringBuf) = [k \in 1..capacity(ringBuf) |->
                            ringPushed - capacity(ringBuf) + k]

\* The buffer after items first .. last were pushed into rb one by one.
RECURSIVE OneByOne(_, _, _)
OneByOne(rb, first, last) ==
    IF first > last THEN rb
    ELSE OneByOne(push(rb, first), first + 1, last)

Active(s) == pc[s] \in {"resume", "ready", "stream", "read"}

\* C22: at most one invocation is initializing, connecting or receiving at a
\* time, and while one is, the audio context, the decoder and the chunk
\* counter it works with are the ones it created.
C22_OneSessionAtATime ==
    /\ \A s, t \in Sessions : (Active(s) /\ Active(t)) => s = t
    /\ \A s \in Sessions :
           (pc[s] \in {"ready", "stream", "read"} /\ decoderState = "configured")
               => decoderGen = s /\ ctxOwner = s

\* Invocation s takes the step in which its audio initialization fails:
\* it leaves initAudio without initAudio having written nextPlayTime, its
\* last assignment.
InitFails(s) ==
    /\ client \in {"simple", "web"}
    /\ pc[s] \in {"idle", "resume"}
    /\ pc'[s] \notin {pc[s], "resume"}
    /\ epoch' = epoch

\* C23: an invocation whose audio initialization fails ends there: it opens
\* no transport and so never reads or submits a chunk, whether it is the
\* first invocation or follows one that left an audio context and a decoder.
\* Stated for invocations that start while no other is under way.
C23_FailedInitOpensNothing ==
    [][\A s \in Sessions :
          (InitFails(s) /\ \A t \in Sessions \ {s} : ~Active(t))
              => /\ pc'[s] = "done"
                 /\ tstate'[s] = "none"
                 /\ transport' = transport]_vars

\* C24: in simple-js a frame the decoder delivers while the audio context is
\* missing or closed is dropped: nothing is scheduled, nextPlayTime and the
\* chunk counter stay as they are, and the frame is released.
C24_DroppedWhenNoContext ==
    [][(client = "simple" /\ audioContext \in {"null", "closed"}
            /\ Len(decodeQueue') < Len(decodeQueue) /\ failed' = failed)
          => /\ schedCount' = schedCount
             /\ schedLog' = schedLog
             /\ nextPlayTime' = nextPlayTime
             /\ receivedChunkCount' = receivedChunkCount
             /\ leaked' = leaked]_vars

\* In simple-js no decoder exists before an audio context does, and no
\* statement closes the audio context or sets it to null: the decoder never
\* has a frame to deliver while the context is missing or closed.
C24_NoFrameWithoutContext ==
    (client = "simple" /\ decodeQueue # <<>>) => audioContext \notin {"null", "closed"}

\* C25: when the read of the incoming streams yields no stream, the
\* invocation ends in that step with its transport closed, and neither then
\* nor later reads a chunk or submits one to the decoder.  (The web client
\* leaves through its catch block, as it does when that read is rejected.)
C25_NoStreamNoLoop ==
    /\ [](cause[1] = "nostream" =>
            pc[1] = "done" /\ tstate[1] = "closed" /\ chunksRead = 0
            /\ decodeQueue = <<>> /\ schedCount = 0)
    /\ [][(pc[1] = "stream" /\ pc'[1] = "done"
               /\ (cause'[1] = "nostream" \/ client = "web")) =>
            /\ tstate'[1] = "closed"
            /\ chunksRead' = 0
            /\ decodeQueue' = <<>>]_vars

\* The transport was ready, no stream came, and the invocation is over.
C25_Witness ==
    /\ cause[1] = "nostream"
    /\ pc[1] = "done"
    /\ tstate[1] = "closed"
    /\ chunksRead = 0

\* C26: in the web client and the visualizer, `connected` is true only
\* while some invocation is between its transport becoming ready and its
\* end, and the step that ends an invocation, whichever way, leaves the
\* flag false, so that the guard of the click listener lets the next click in.
C26_ConnectedFlag ==
    /\ [](client # "simple" =>
            (connected => \E s \in Sessions : pc[s] \in {"stream", "read"}))
    /\ [][client # "simple" =>
            \A s \in Sessions :
                (pc[s] # "done" /\ pc'[s] = "done") => ~connected']_vars

\* An invocation that was connected and read chunks has ended on the
\* stream's end, and the flag is false again.
C26_Witness ==
    /\ client # "simple"
    /\ cause[1] = "closed"
    /\ chunksRead >= 1
    /\ pc[1] = "done"
    /\ ~connected

====
